---- MODULE Spec2Model ----
(***************************************************************************)
(* Batch trade execution engine of DexTrader (trade_execute_service).      *)
(*                                                                         *)
(* The model follows main() of the trade executor (src/unnamed/part_002)   *)
(* and the helpers of utils (src/unnamed/part_001).  One action is one     *)
(* synchronous segment of main() between two awaits; the remote services   *)
(* (quote API, swap API, RPC node, confirmation waiter, secret store) are  *)
(* the environment and answer nondeterministically.                        *)
(*                                                                         *)
(* trace is the ordered history of the observable effects of the run: the  *)
(* lines appended to the log file and the calls made to the outside.       *)
(***************************************************************************)
EXTENDS Integers, Sequences, FiniteSets, TLC

VARIABLES
    files,                           \* names in the confirmation directory (readdir)
    latestConfirmationPath,          \* the sheet the module level selected, or null
    tradeData,                       \* text of the latest confirmation sheet, or null
    tradeInfoList,                   \* the batch, mutated in place
    secretStore,                     \* state of the secret store for this run
    walletKeysJson,                  \* the object getSecret answers with
    walletKeysMap,                   \* wallet address -> private key
    i,                               \* loop index of main (1-based)
    pc,                              \* position of main
    attempt,                         \* retry loop counter
    txResponse,                      \* last answer of the confirmation waiter
    blockhashWithExpiryBlockHeight,  \* the lease held by main
    swapTransaction,                 \* unsigned transaction blob of the swap API
    serializedTransaction,           \* signed wire bytes
    resultsFile,                     \* content of the last results write
    leaseCounter,                    \* number of leases drawn from the RPC node
    trace                            \* log lines and external calls, in order

vars == <<walletKeysJson, files, latestConfirmationPath, tradeData, tradeInfoList, secretStore, walletKeysMap, i, pc, attempt, txResponse,
          blockhashWithExpiryBlockHeight, swapTransaction, serializedTransaction,
          resultsFile, leaseCounter, trace>>

-----------------------------------------------------------------------------
(* Bounds of the model *)

MaxTrades == 2

-----------------------------------------------------------------------------
(* Program constants *)

MAX_RETRIES == 3

BaseDelay == 2000

MaxDelay == 30000

DefaultDelaySeconds == "5"

-----------------------------------------------------------------------------
(* Values *)

\* a JavaScript undefined property
Undefined == "undefined"

\* a null txResponse
Null == [isNull |-> TRUE, signatures |-> <<>>]

NoLease == 0

NoFile == [exists |-> FALSE, header |-> <<>>, rows |-> <<>>]

Min(a, b) == IF a <= b THEN a ELSE b

Pow2(n) == 2 ^ n

\* !x of JavaScript for a string or undefined
Falsy(v) == v = Undefined \/ v = ""

\* x || d of JavaScript
OrElse(v, d) == IF Falsy(v) THEN d ELSE v

-----------------------------------------------------------------------------
(* IEEE 754 doubles, as far as parseFloat, the product and Math.floor of   *)
(* main need them. A double is mantissa * 2^e with a mantissa of at most   *)
(* 53 bits (a sequence of bits, least significant first); intermediate     *)
(* exact values are naturals below 2^100, held as five limbs of 20 bits.   *)

LimbBase == 1048576

LimbBits == 20

MantissaBits == 53

GuardShift == 70

\* a * c for a small factor c (c <= 1000)
MulSmall(a, c) ==
    LET x1 == a[1] * c
        x2 == a[2] * c + x1 \div LimbBase
        x3 == a[3] * c + x2 \div LimbBase
        x4 == a[4] * c + x3 \div LimbBase
        x5 == a[5] * c + x4 \div LimbBase
    IN  <<x1 % LimbBase, x2 % LimbBase, x3 % LimbBase, x4 % LimbBase, x5 % LimbBase>>

\* quotient q and remainder r of a by a small divisor c (c <= 1000)
DivSmall(a, c) ==
    LET x5 == a[5]
        x4 == (x5 % c) * LimbBase + a[4]
        x3 == (x4 % c) * LimbBase + a[3]
        x2 == (x3 % c) * LimbBase + a[2]
        x1 == (x2 % c) * LimbBase + a[1]
    IN  [q |-> <<x1 \div c, x2 \div c, x3 \div c, x4 \div c, x5 \div c>>, r |-> x1 % c]

\* bit k (from 0) of a
Bit(a, k) == (a[(k \div LimbBits) + 1] \div Pow2(k % LimbBits)) % 2

\* the bits of a, without leading zeros
BitsOf(a) ==
    LET all == [k \in 1..(5 * LimbBits) |-> Bit(a, k - 1)]
        len == IF \A k \in DOMAIN all : all[k] = 0 THEN 0
               ELSE CHOOSE k \in DOMAIN all :
                        all[k] = 1 /\ \A j \in (k + 1)..(5 * LimbBits) : all[j] = 0
    IN  SubSeq(all, 1, len)

\* the natural number of at most 31 bits written by the bits b
RECURSIVE ToInt(_)
ToInt(b) == IF b = <<>> THEN 0 ELSE b[1] + 2 * ToInt(Tail(b))

\* the limbs of a mantissa
LimbsOf(b) ==
    LET bit(k) == IF k <= Len(b) THEN b[k] ELSE 0
        limb(n) == ToInt([j \in 1..LimbBits |-> bit(LimbBits * (n - 1) + j)])
    IN  <<limb(1), limb(2), limb(3), 0, 0>>

\* b + 1
Increment(b) ==
    IF \A k \in DOMAIN b : b[k] = 1
    THEN [k \in 1..(Len(b) + 1) |-> IF k = Len(b) + 1 THEN 1 ELSE 0]
    ELSE [k \in 1..Len(b) |->
            IF \A j \in 1..(k - 1) : b[j] = 1 THEN 1 - b[k] ELSE b[k]]

NaN == [nan |-> TRUE, m |-> <<>>, e |-> 0]

\* the double nearest to b * 2^e (ties to even); sticky tells that the exact
\* value is a little above b * 2^e
RoundToDouble(b, e, sticky) ==
    LET drop == Len(b) - MantissaBits
    IN  IF drop <= 0 THEN [nan |-> FALSE, m |-> b, e |-> e]
        ELSE LET kept == SubSeq(b, drop + 1, Len(b))
                 guard == b[drop]
                 rest == sticky \/ \E k \in 1..(drop - 1) : b[k] = 1
                 up == guard = 1 /\ (rest \/ kept[1] = 1)
                 m == IF up THEN Increment(kept) ELSE kept
             IN  IF Len(m) > MantissaBits
                 THEN [nan |-> FALSE, m |-> Tail(m), e |-> e + drop + 1]
                 ELSE [nan |-> FALSE, m |-> m, e |-> e + drop]

Pow10 == [k \in 0..3 |-> CASE k = 0 -> 1 [] k = 1 -> 10 [] k = 2 -> 100 [] k = 3 -> 1000]

\* the double nearest to the decimal n / 10^k (n < 2^20, k <= 3)
DoubleOf(n, k) ==
    LET shifted == <<0, 0, 0, (n * 1024) % LimbBase, (n * 1024) \div LimbBase>>
        d == DivSmall(shifted, Pow10[k])
    IN  RoundToDouble(BitsOf(d.q), 0 - GuardShift, d.r # 0)

RECURSIVE TimesPow10Limbs(_, _)
TimesPow10Limbs(a, d) == IF d = 0 THEN a ELSE MulSmall(TimesPow10Limbs(a, d - 1), 10)

\* the double product x * Math.pow(10, d): the exact product, rounded once
TimesPow10(x, d) ==
    IF x.nan THEN NaN
    ELSE RoundToDouble(BitsOf(TimesPow10Limbs(LimbsOf(x.m), d)), x.e, FALSE)

\* Math.floor of a double in [0, 2^31), NaN for NaN
MathFloor(x) ==
    IF x.nan THEN [nan |-> TRUE, val |-> 0]
    ELSE [nan |-> FALSE,
          val |-> IF x.e >= 0 THEN ToInt([k \in 1..x.e |-> 0] \o x.m)
                  ELSE IF 0 - x.e >= Len(x.m) THEN 0
                  ELSE ToInt(SubSeq(x.m, 1 - x.e, Len(x.m)))]

-----------------------------------------------------------------------------
(* Inputs *)

\* tradeData when no file of the directory has the prefix
NoTradeData == [isNull |-> TRUE, header |-> <<>>, rows |-> <<>>]

\* the cells the model pads with white space or a line break, and their trimmed text
Padded ==
    [s \in {" wallet_address", "delay_seconds\r", " W1 ", "3\r", " ", "W\n1"} |->
        CASE s = " wallet_address" -> "wallet_address"
          [] s = "W\n1" -> "W1"
          [] s = "delay_seconds\r" -> "delay_seconds"
          [] s = " W1 " -> "W1"
          [] s = "3\r" -> "3"
          [] s = " " -> ""]

\* String.prototype.trim, after replace(/[\r\n]/g, '')
Trim(s) == IF s \in DOMAIN Padded THEN Padded[s] ELSE s

\* the cells with a line break between other characters
InnerBreak == {"W\n1"}

\* trim of csv-parse and String.prototype.trim: the ends only
trim(s) == IF s \in InnerBreak THEN s ELSE Trim(s)

\* cleanValue without replace(/[\r\n]/g, '')
cleanValueTrimsOnly(value) == IF value = Undefined THEN "" ELSE trim(value)

\* cleanValue
cleanValue(value) == IF value = Undefined THEN "" ELSE Trim(value)

\* header row of the trade confirmation sheet: split(',').map(h => h.trim())
headers == [c \in 1..Len(tradeData.header) |-> Trim(tradeData.header[c])]

\* token_info.csv: token -> decimals
TokenInfo == [token \in {"SOL", "USDC"} |-> IF token = "SOL" THEN 9 ELSE 6]

\* the key map the secret store yields when it can be read
SecretWalletKeys == [w \in {"W1", "W3"} |-> IF w = "W1" THEN "key1" ELSE "notbase58"]

\* the key texts a secret store can hold for a wallet
KeyValues == {"key1", "key2", "notbase58"}

\* a key Keypair.fromSecretKey(bs58.decode(.)) accepts
ValidSecretKey(k) == k \in {"key1", "key2"}

\* the rows a confirmation sheet is drawn from, as the loader maps them
InputRows ==
    { [wallet_address |-> "W1", from_token_address |-> "SOL", delay_seconds |-> "",
       coin_amount |-> "1.5", slippage_in_pct |-> "0.5"],
      [wallet_address |-> "W1", from_token_address |-> "USDC", delay_seconds |-> "0",
       coin_amount |-> "1.005", slippage_in_pct |-> "0.29"],
      [wallet_address |-> "W1", from_token_address |-> "BONK", delay_seconds |-> "3",
       coin_amount |-> "1.5", slippage_in_pct |-> "0.5"],
      [wallet_address |-> "W2", from_token_address |-> "SOL", delay_seconds |-> "0",
       coin_amount |-> "1.5", slippage_in_pct |-> "0.5"],
      [wallet_address |-> "W3", from_token_address |-> "SOL", delay_seconds |-> "",
       coin_amount |-> "1.5", slippage_in_pct |-> "0.5"] }

\* the header of a sheet with the columns of the model
SheetHeader ==
    <<"wallet_address", "from_token_address", "delay_seconds", "coin_amount", "slippage_in_pct">>

RowCells(r) ==
    <<r.wallet_address, r.from_token_address, r.delay_seconds, r.coin_amount, r.slippage_in_pct>>

\* the sheets with the usual header and up to MaxTrades rows
Batches == UNION { [1..n -> InputRows] : n \in 0..MaxTrades }

Sheet(hdr, rows) == [isNull |-> FALSE, header |-> hdr, rows |-> rows]

\* an empty file, and one-row sheets with an extra column, without a core
\* column, with an empty core cell, with padded cells, a two-row sheet
\* without the delay_seconds column, and a sheet with a quoted cell that
\* holds a line break
OtherSheets ==
    { Sheet(<<>>, <<>>),
      Sheet(<<"wallet_address", "from_token_address">>,
            << <<"W1", "SOL">>, <<"W1", "USDC">> >>),
      Sheet(SheetHeader \o <<"note">>, << <<"W1", "SOL", "", "1.5", "0.5", "memo">> >>),
      Sheet(<<"wallet_address", "delay_seconds">>, << <<"W1", "0">> >>),
      Sheet(SheetHeader, << <<"W1", "", "", "1.5", "0.5">> >>),
      Sheet(<<" wallet_address", "from_token_address", "delay_seconds\r">>,
            << <<" W1 ", "SOL", "3\r">> >>),
      Sheet(SheetHeader, << <<"W\n1", "SOL", "", "1.5", "0.5">> >>) }

\* what the module level can read from the confirmation directory
InputFiles ==
    {NoTradeData}
    \cup { Sheet(SheetHeader, [k \in DOMAIN b |-> RowCells(b[k])]) : b \in Batches }
    \cup OtherSheets

\* trade[header] of writeTradeResults, raw.column of the loader
Field(trade, header) == IF header \in DOMAIN trade THEN trade[header] ELSE Undefined

\* a record of csv-parse (columns: true, trim: true): column name -> cell
RawRecord(hdr, cells) ==
    [h \in { Trim(hdr[c]) : c \in 1..Len(hdr) } |->
        trim(cells[CHOOSE c \in 1..Len(hdr) : Trim(hdr[c]) = h])]

\* a TradeInfo object as built by the loader: outcome fields not yet set
TradeInfoOf(raw) ==
    [wallet_address |-> cleanValue(Field(raw, "wallet_address")),
     from_token_address |-> cleanValue(Field(raw, "from_token_address")),
     delay_seconds |-> cleanValue(Field(raw, "delay_seconds")),
     coin_amount |-> cleanValue(Field(raw, "coin_amount")),
     slippage_in_pct |-> cleanValue(Field(raw, "slippage_in_pct")),
     transaction_id |-> Undefined,
     status |-> Undefined]

\* parse(tradeData, ...).map(...)
ParseTrades(data) ==
    [r \in 1..Len(data.rows) |-> TradeInfoOf(RawRecord(data.header, data.rows[r]))]

\* !tradeData: no file, or a file without text
NoData(data) == data.isNull \/ (data.header = <<>> /\ data.rows = <<>>)

\* answers of the swap API: no payload, a well-formed blob, a malformed blob
SwapPayloads == {"", "blobOK", "blobBad"}

\* confirmed transactions the waiter can return
ConfirmedResponses ==
    { [isNull |-> FALSE, signatures |-> <<"sigA">>],
      [isNull |-> FALSE, signatures |-> <<"sigB", "sigA">>] }

-----------------------------------------------------------------------------
(* Pure helpers of the program *)

\* parseInt(s, 10) on the strings of the model
DecimalStrings == [s \in {"0", "3", "5"} |-> CASE s = "0" -> 0 [] s = "3" -> 3 [] s = "5" -> 5]

ParseInt(s) ==
    IF s \in DOMAIN DecimalStrings
    THEN [nan |-> FALSE, val |-> DecimalStrings[s]]
    ELSE [nan |-> TRUE, val |-> 0]

\* a delay that ignores the record's column
delaySecondsDefaultOnly(tradeInfo) == ParseInt(DefaultDelaySeconds)

\* delaySeconds > 0 of main, false for NaN
delaySeconds(tradeInfo) == ParseInt(OrElse(tradeInfo.delay_seconds, DefaultDelaySeconds))

HasDelay(tradeInfo) ==
    LET d == delaySeconds(tradeInfo) IN ~d.nan /\ d.val > 0

\* getTokenDecimals finds the token
KnownToken(tokenAddress) == tokenAddress \in DOMAIN TokenInfo

\* getTokenDecimals
getTokenDecimals(tokenAddress) == TokenInfo[tokenAddress]

\* the decimal texts of the amount and slippage cells: n / 10^k
Decimals ==
    [s \in {"1.5", "1.005", "0.5", "0.29"} |->
        CASE s = "1.5" -> [n |-> 15, k |-> 1]
          [] s = "1.005" -> [n |-> 1005, k |-> 3]
          [] s = "0.5" -> [n |-> 5, k |-> 1]
          [] s = "0.29" -> [n |-> 29, k |-> 2]]

\* parseFloat: NaN for an empty or missing cell
parseFloat(s) ==
    IF s \in DOMAIN Decimals THEN DoubleOf(Decimals[s].n, Decimals[s].k) ELSE NaN

\* Math.floor(parseFloat(s) * Math.pow(10, d)) for every cell text and
\* every exponent main uses (the token decimals, and 2 for * 100)
FloorTimesPow10 ==
    [s \in DOMAIN Decimals \cup {""}, d \in {2, 6, 9} |->
        MathFloor(TimesPow10(parseFloat(s), d))]

amountInLamports(tradeInfo, tokenDecimals) ==
    FloorTimesPow10[tradeInfo.coin_amount, tokenDecimals]

slippageBps(tradeInfo) == FloorTimesPow10[tradeInfo.slippage_in_pct, 2]

\* the amount and slippageBps parameters of the quote URL
QuoteParameters(tradeInfo) ==
    [amount |-> amountInLamports(tradeInfo, getTokenDecimals(tradeInfo.from_token_address)),
     slippageBps |-> slippageBps(tradeInfo)]

\* delay of exponentialBackoff(attempt), in ms
exponentialBackoff(att) == Min(BaseDelay * Pow2(att), MaxDelay)

\* the last signature instead of the first
TransactionIdLast(resp) == resp.signatures[Len(resp.signatures)]

\* txResponse.transaction.signatures[0]
TransactionId(resp) == resp.signatures[1]

\* [...headers, 'transaction_id', 'status'] with duplicates removed:
\* filter((h, i, arr) => arr.indexOf(h) === i)
Dedupe(s) ==
    LET first == { k \in 1..Len(s) : \A m \in 1..(k - 1) : s[m] # s[k] }
    IN  [n \in 1..Cardinality(first) |->
            s[CHOOSE k \in first : Cardinality({ m \in first : m <= k }) = n]]

\* the header row of the results for every header row the input can have
UpdatedHeaders ==
    [hs \in { [c \in 1..Len(f.header) |-> Trim(f.header[c])] : f \in InputFiles } |->
        Dedupe(hs \o <<"transaction_id", "status">>)]

updatedHeaders(hs) == UpdatedHeaders[hs]

\* the CSV content for a header row uh: a line for the header, then for
\* every record updatedHeaders.map(header => trade[header] || '')
ResultsOf(list, uh) ==
    [exists |-> TRUE,
     header |-> uh,
     rows |-> [r \in 1..Len(list) |-> [c \in 1..Len(uh) |-> OrElse(Field(list[r], uh[c]), "")]]]

\* the CSV content writeTradeResults writes; the records and the header row
\* are bound as values, so that they are evaluated once and not once a cell
writeTradeResults(list, hs) ==
    CHOOSE file \in { ResultsOf(l, uh) : l \in {list}, uh \in {updatedHeaders(hs)} } : TRUE

\* a loop that steps over a record
NextIndexSkips(idx) == idx + 2

\* i++ of the for loop of main
NextIndex(idx) == idx + 1

-----------------------------------------------------------------------------
(* Trace *)

Ev(kind, t, att, arg) == [kind |-> kind, trade |-> t, attempt |-> att, arg |-> arg]

\* appendToLog
Log(kind, t) == Ev(kind, t, 0, 0)

\* a catch block that rethrows: main rejects and the process exits 1
CatchFinallyRethrows(tr) ==
    /\ trace' = tr \o <<Log("log_failed_to_process", i), Log("log_completed", i)>>
    /\ i' = i
    /\ pc' = "exit1"

\* a catch block without the finally block
CatchFinallyNoCompletion(tr) ==
    /\ trace' = Append(tr, Log("log_failed_to_process", i))
    /\ i' = NextIndex(i)
    /\ pc' = "loop"

\* the catch and finally blocks of one trade, then the next loop round
CatchFinally(tr) ==
    /\ trace' = tr \o <<Log("log_failed_to_process", i), Log("log_completed", i)>>
    /\ i' = NextIndex(i)
    /\ pc' = "loop"

-----------------------------------------------------------------------------
(* The confirmation directory. A file name is the sequence of its UTF-16   *)
(* code units; the prefix 'trade_confirmation_sheet_' is cut down to its   *)
(* last two units, 't_'.                                                   *)

MaxFiles == 3

Prefix == <<116, 95>>

\* t_1, t_2, t_10, further zz, t0 (no underscore) and u_1
FileNames ==
    { Prefix \o <<49>>, Prefix \o <<50>>, Prefix \o <<49, 48>>,
      <<122, 122>>, <<116, 48>>, <<117, 95, 49>> }

\* the listings: up to MaxFiles distinct names, in any order
Listings ==
    { l \in UNION { [1..n -> FileNames] : n \in 0..MaxFiles } :
        \A j \in DOMAIN l : \A k \in DOMAIN l : j # k => l[j] # l[k] }

NoPath == [isNull |-> TRUE, name |-> <<>>]

\* String.prototype.startsWith
startsWith(file, prefix) ==
    Len(file) >= Len(prefix) /\ SubSeq(file, 1, Len(prefix)) = prefix

\* a < b for strings: the order of the default Array.prototype.sort
RECURSIVE StringLess(_, _)
StringLess(a, b) ==
    IF b = <<>> THEN FALSE
    ELSE IF a = <<>> THEN TRUE
    ELSE IF a[1] # b[1] THEN a[1] < b[1]
    ELSE StringLess(Tail(a), Tail(b))

\* file put at its place in the ascending sequence sorted
RECURSIVE Insert(_, _)
Insert(file, sorted) ==
    IF sorted = <<>> THEN <<file>>
    ELSE IF StringLess(file, sorted[1]) THEN <<file>> \o sorted
    ELSE <<sorted[1]>> \o Insert(file, Tail(sorted))

\* Array.prototype.sort()
RECURSIVE Sort(_)
Sort(list) == IF list = <<>> THEN <<>> ELSE Insert(list[1], Sort(Tail(list)))

\* Array.prototype.reverse()
Reverse(list) == [k \in 1..Len(list) |-> list[Len(list) + 1 - k]]

\* the selection without reverse(): the first name of the sorted list
getOldestTradeConfirmation(listing) ==
    LET sorted == Sort(SelectSeq(listing, LAMBDA file : startsWith(file, Prefix)))
    IN  IF sorted # <<>> THEN [isNull |-> FALSE, name |-> sorted[1]] ELSE NoPath

\* getLatestTradeConfirmation: filter, sort, reverse, first or null
getLatestTradeConfirmation(listing) ==
    LET sorted == Reverse(Sort(SelectSeq(listing, LAMBDA file : startsWith(file, Prefix))))
    IN  IF sorted # <<>> THEN [isNull |-> FALSE, name |-> sorted[1]] ELSE NoPath

-----------------------------------------------------------------------------
(* The secret payload. A text is the sequence of its pieces: an address, a *)
(* key or a name is one piece, the colon is a piece of its own. An entry   *)
(* is a key of the JSON object with its value.                             *)

MaxEntries == 2

KeyPrefix == <<"WALLET_KEYS_">>

\* a JSON string, and a JSON number other than 0
JsonString(text) == [isString |-> TRUE, text |-> text]
JsonNumber == [isString |-> FALSE, text |-> <<>>]

EntryKeys == { <<"WALLET_KEYS_", "1">>, <<"WALLET_KEYS_", "2">>, <<"OTHER">> }

EntryValues ==
    { JsonString(<<"W1", ":", "key1">>), JsonString(<<"W3", ":", "notbase58">>),
      JsonString(<<"W1", ":", "key2">>), JsonString(<<"W1">>), JsonString(<<":", "key1">>),
      JsonString(<<"W1", ":">>), JsonString(<<>>),
      JsonString(<<"W2", ":", "key1", ":", "key2">>), JsonNumber }

\* the objects getSecret can answer with: up to MaxEntries entries, no key twice
SecretPayloads ==
    { json \in UNION { [1..n -> [key : EntryKeys, value : EntryValues]] : n \in 0..MaxEntries } :
        \A a, b \in DOMAIN json : a # b => json[a].key # json[b].key }

\* the secret of the runs of main
SecretEntries ==
    << [key |-> <<"WALLET_KEYS_", "1">>, value |-> JsonString(<<"W1", ":", "key1">>)],
       [key |-> <<"WALLET_KEYS_", "2">>, value |-> JsonString(<<"W3", ":", "notbase58">>)] >>

\* the string a text of at most one piece stands for
Text(text) == IF text = <<>> THEN "" ELSE text[1]

\* String.prototype.split(':')
RECURSIVE split(_)
split(text) ==
    IF \A k \in DOMAIN text : text[k] # ":"
    THEN <<text>>
    ELSE LET k == CHOOSE k \in DOMAIN text :
                      text[k] = ":" /\ \A m \in 1..(k - 1) : text[m] # ":"
         IN  <<SubSeq(text, 1, k - 1)>> \o split(SubSeq(text, k + 1, Len(text)))

\* a JSON value in a condition: a number other than 0, a string other than ''
Truthy(value) == ~value.isString \/ value.text # <<>>

\* walletKeysMap[publicKey] = privateKey
Put(map, publicKey, privateKey) ==
    [a \in DOMAIN map \cup {publicKey} |-> IF a = publicKey THEN privateKey ELSE map[a]]

\* the for loop of createWalletKeysMap over the entries from position k on;
\* split of a value that is not a string throws a TypeError
RECURSIVE FillFrom(_, _, _)
FillFrom(json, k, map) ==
    IF k > Len(json) THEN [threw |-> FALSE, map |-> map]
    ELSE IF startsWith(json[k].key, KeyPrefix) /\ Truthy(json[k].value)
    THEN IF ~json[k].value.isString THEN [threw |-> TRUE, map |-> map]
         ELSE LET parts == split(json[k].value.text)
                  publicKey == parts[1]
                  privateKey == IF Len(parts) >= 2 THEN parts[2] ELSE <<>>
              IN  IF publicKey # <<>> /\ privateKey # <<>>
                  THEN FillFrom(json, k + 1, Put(map, Text(publicKey), Text(privateKey)))
                  ELSE FillFrom(json, k + 1, map)
    ELSE FillFrom(json, k + 1, map)

\* createWalletKeysMap once getSecret has answered
createWalletKeysMap(json) == FillFrom(json, 1, <<>>)

-----------------------------------------------------------------------------
(* Initial state: the process starts with a confirmation directory *)

Init ==
    /\ tradeData \in InputFiles
    /\ files = IF tradeData.isNull THEN <<>> ELSE <<Prefix \o <<49>>>>
    /\ latestConfirmationPath = getLatestTradeConfirmation(files)
    /\ tradeInfoList = <<>>
    /\ secretStore \in {"ok", "misconfigured", "unreachable"}
    /\ walletKeysJson = SecretEntries
    /\ walletKeysMap = <<>>
    /\ i = 1
    /\ pc = "load"
    /\ attempt = 0
    /\ txResponse = Null
    /\ blockhashWithExpiryBlockHeight = NoLease
    /\ swapTransaction = ""
    /\ serializedTransaction = <<>>
    /\ resultsFile = NoFile
    /\ leaseCounter = 0
    /\ trace = <<>>

-----------------------------------------------------------------------------
(* Module level: read the latest confirmation sheet, build the batch *)

\* 'No trade data found' is thrown at module level: the process exits 1
LoadTradesFails ==
    /\ pc = "load"
    /\ NoData(tradeData)
    /\ pc' = "exit1"
    /\ UNCHANGED <<walletKeysJson, files, latestConfirmationPath, tradeData, tradeInfoList, secretStore, walletKeysMap, i, attempt,
                   txResponse, blockhashWithExpiryBlockHeight, swapTransaction,
                   serializedTransaction, resultsFile, leaseCounter, trace>>

\* parse the sheet, log 'Found n trades to process', call main
LoadTrades ==
    /\ pc = "load"
    /\ ~NoData(tradeData)
    /\ tradeInfoList' = ParseTrades(tradeData)
    /\ trace' = Append(trace, Log("log_found_trades", 0))
    /\ pc' = "main"
    /\ UNCHANGED <<walletKeysJson, files, latestConfirmationPath, tradeData, secretStore, walletKeysMap, i, attempt, txResponse,
                   blockhashWithExpiryBlockHeight, swapTransaction,
                   serializedTransaction, resultsFile, leaseCounter>>

-----------------------------------------------------------------------------
(* main(): createWalletKeysMap, awaited before the loop *)

\* walletKeysMap[address]
KeyOf(map, address) == IF address \in DOMAIN map THEN map[address] ELSE Undefined

\* an error of the secret store that is swallowed: the loop runs with an empty map
CreateWalletKeysMapSwallows ==
    /\ pc = "main"
    /\ secretStore # "ok"
    /\ pc' = "loop"
    /\ UNCHANGED <<walletKeysJson, files, latestConfirmationPath, tradeData, tradeInfoList, secretStore, walletKeysMap, i, attempt, txResponse,
                   blockhashWithExpiryBlockHeight, swapTransaction,
                   serializedTransaction, resultsFile, leaseCounter, trace>>

\* validateEnvironment or getSecret throws: main rejects and the process exits 1
CreateWalletKeysMapFails ==
    /\ pc = "main"
    /\ secretStore # "ok"
    /\ trace' = IF secretStore = "unreachable"
                THEN Append(trace, Ev("get_secret", 0, 0, 0))
                ELSE trace
    /\ pc' = "exit1"
    /\ UNCHANGED <<walletKeysJson, files, latestConfirmationPath, tradeData, tradeInfoList, secretStore,
                   walletKeysMap, i, attempt, txResponse, blockhashWithExpiryBlockHeight,
                   swapTransaction, serializedTransaction, resultsFile, leaseCounter>>

\* validateEnvironment passes and getSecret answers: the map is built, or the
\* error of the for loop is rethrown, main rejects and the process exits 1
CreateWalletKeysMap ==
    /\ pc = "main"
    /\ secretStore = "ok"
    /\ LET built == createWalletKeysMap(walletKeysJson) IN
       IF built.threw
       THEN /\ pc' = "exit1"
            /\ UNCHANGED walletKeysMap
       ELSE /\ pc' = "loop"
            /\ walletKeysMap' = built.map
    /\ trace' = Append(trace, Ev("get_secret", 0, 0, 0))
    /\ UNCHANGED <<walletKeysJson, files, latestConfirmationPath, tradeData, tradeInfoList, secretStore, i, attempt, txResponse,
                   blockhashWithExpiryBlockHeight, swapTransaction,
                   serializedTransaction, resultsFile, leaseCounter>>

-----------------------------------------------------------------------------
(* main(): one round of the for loop, up to the first await *)

\* the same steps with a token lookup that never throws
PrepareNoTokenCheck(tr) ==
    LET tradeInfo == tradeInfoList[i]
        privateKey == KeyOf(walletKeysMap, tradeInfo.wallet_address)
        tr1 == Append(tr, Log("log_processing", i))
    IN  IF Falsy(privateKey)
        THEN CatchFinally(tr1)
        ELSE IF ~ValidSecretKey(privateKey)
        THEN CatchFinally(Append(tr1, Log("log_wallet_init", i)))
        ELSE /\ trace' = tr1 \o <<Log("log_wallet_init", i),
                                  Log("log_fetching_quote", i),
                                  Ev("quote_request", i, 0, 0)>>
             /\ pc' = "quote"
             /\ i' = i

\* the same steps with the key in the wallet initialization line
PrepareOutcomeLogsKey(tradeInfo, privateKey, idx) ==
    LET processing == <<Log("log_processing", idx)>>
    IN  IF ~KnownToken(tradeInfo.from_token_address)
        THEN [events |-> processing, next |-> "catch"]
        ELSE IF Falsy(privateKey)
        THEN [events |-> processing, next |-> "catch"]
        ELSE IF ~ValidSecretKey(privateKey)
        THEN [events |-> processing \o <<Ev("log_wallet_init", idx, 0, privateKey)>>,
              next |-> "catch"]
        ELSE [events |-> processing \o <<Ev("log_wallet_init", idx, 0, privateKey),
                                         Log("log_fetching_quote", idx),
                                         Ev("quote_request", idx, 0, QuoteParameters(tradeInfo))>>,
              next |-> "quote"]

\* what the steps from 'Processing trade' to the quote request put out for
\* record idx when the key map holds privateKey for its wallet, and whether
\* they end in the catch block or in the quote request
PrepareOutcome(tradeInfo, privateKey, idx) ==
    LET processing == <<Log("log_processing", idx)>>
    IN  IF ~KnownToken(tradeInfo.from_token_address)
        THEN [events |-> processing, next |-> "catch"]
        ELSE IF Falsy(privateKey)
        THEN [events |-> processing, next |-> "catch"]
        ELSE IF ~ValidSecretKey(privateKey)
        THEN [events |-> processing \o <<Log("log_wallet_init", idx)>>, next |-> "catch"]
        ELSE [events |-> processing \o <<Log("log_wallet_init", idx),
                                         Log("log_fetching_quote", idx),
                                         Ev("quote_request", idx, 0, QuoteParameters(tradeInfo))>>,
              next |-> "quote"]

\* the synchronous steps from 'Processing trade' to the quote request
Prepare(tr) ==
    LET tradeInfo == tradeInfoList[i]
        outcome == PrepareOutcome(tradeInfo, KeyOf(walletKeysMap, tradeInfo.wallet_address), i)
    IN  IF outcome.next = "catch"
        THEN CatchFinally(tr \o outcome.events)
        ELSE /\ trace' = tr \o outcome.events
             /\ pc' = "quote"
             /\ i' = i

\* a loop head that reads the secret store again for every record
StartTradeReloadsKeys ==
    /\ pc = "loop"
    /\ i <= Len(tradeInfoList)
    /\ LET tradeInfo == tradeInfoList[i]
           tr0 == trace \o <<Log("log_start", i), Ev("get_secret", 0, 0, 0)>>
       IN  IF i > 1 /\ HasDelay(tradeInfo)
           THEN /\ trace' = tr0 \o <<Log("log_waiting", i),
                                     Ev("sleep_delay", i, 0, delaySeconds(tradeInfo).val * 1000)>>
                /\ pc' = "delay"
                /\ i' = i
           ELSE Prepare(tr0)
    /\ UNCHANGED <<walletKeysJson, files, latestConfirmationPath, tradeData, tradeInfoList, secretStore, walletKeysMap, attempt, txResponse,
                   blockhashWithExpiryBlockHeight, swapTransaction,
                   serializedTransaction, resultsFile, leaseCounter>>

\* loop head: log the start, then either sleep the inter-trade delay or go on
StartTrade ==
    /\ pc = "loop"
    /\ i <= Len(tradeInfoList)
    /\ LET tradeInfo == tradeInfoList[i]
           tr0 == Append(trace, Log("log_start", i))
       IN  IF i > 1 /\ HasDelay(tradeInfo)
           THEN /\ trace' = tr0 \o <<Log("log_waiting", i),
                                     Ev("sleep_delay", i, 0, delaySeconds(tradeInfo).val * 1000)>>
                /\ pc' = "delay"
                /\ i' = i
           ELSE Prepare(tr0)
    /\ UNCHANGED <<walletKeysJson, files, latestConfirmationPath, tradeData, tradeInfoList, secretStore, walletKeysMap, attempt, txResponse,
                   blockhashWithExpiryBlockHeight, swapTransaction,
                   serializedTransaction, resultsFile, leaseCounter>>

\* the inter-trade delay has elapsed
DelayElapsed ==
    /\ pc = "delay"
    /\ Prepare(trace)
    /\ UNCHANGED <<walletKeysJson, files, latestConfirmationPath, tradeData, tradeInfoList, secretStore, walletKeysMap, attempt, txResponse,
                   blockhashWithExpiryBlockHeight, swapTransaction,
                   serializedTransaction, resultsFile, leaseCounter>>

\* a loop condition that can fail one record early
FinishBeforeLast ==
    /\ pc = "loop"
    /\ i >= Len(tradeInfoList)
    /\ pc' = "done"
    /\ UNCHANGED <<walletKeysJson, files, latestConfirmationPath, tradeData, tradeInfoList, secretStore, walletKeysMap, i, attempt, txResponse,
                   blockhashWithExpiryBlockHeight, swapTransaction,
                   serializedTransaction, resultsFile, leaseCounter, trace>>

\* the loop condition fails: main resolves
Finish ==
    /\ pc = "loop"
    /\ i > Len(tradeInfoList)
    /\ pc' = "done"
    /\ UNCHANGED <<walletKeysJson, files, latestConfirmationPath, tradeData, tradeInfoList, secretStore, walletKeysMap, i, attempt, txResponse,
                   blockhashWithExpiryBlockHeight, swapTransaction,
                   serializedTransaction, resultsFile, leaseCounter, trace>>

-----------------------------------------------------------------------------
(* main(): quote, swap, blockhash, signature *)

QuoteReturns ==
    /\ pc = "quote"
    /\ trace' = trace \o <<Log("log_quote_response", i), Ev("swap_request", i, 0, 0)>>
    /\ pc' = "swap"
    /\ UNCHANGED <<walletKeysJson, files, latestConfirmationPath, tradeData, tradeInfoList, secretStore, walletKeysMap, i, attempt, txResponse,
                   blockhashWithExpiryBlockHeight, swapTransaction,
                   serializedTransaction, resultsFile, leaseCounter>>

\* fetch or json() of the quote request throws
QuoteThrows ==
    /\ pc = "quote"
    /\ CatchFinally(trace)
    /\ UNCHANGED <<walletKeysJson, files, latestConfirmationPath, tradeData, tradeInfoList, secretStore, walletKeysMap, attempt, txResponse,
                   blockhashWithExpiryBlockHeight, swapTransaction,
                   serializedTransaction, resultsFile, leaseCounter>>

SwapReturns ==
    /\ pc = "swap"
    /\ \E payload \in SwapPayloads :
        /\ swapTransaction' = payload
        /\ IF Falsy(payload)
           THEN CatchFinally(Append(trace, Ev("swap_response", i, 0, payload)))
           ELSE /\ trace' = trace \o <<Ev("swap_response", i, 0, payload),
                                        Ev("get_blockhash", i, 0, 0)>>
                /\ pc' = "blockhash"
                /\ i' = i
    /\ UNCHANGED <<walletKeysJson, files, latestConfirmationPath, tradeData, tradeInfoList, secretStore, walletKeysMap, attempt, txResponse,
                   blockhashWithExpiryBlockHeight, serializedTransaction,
                   resultsFile, leaseCounter>>

SwapThrows ==
    /\ pc = "swap"
    /\ CatchFinally(trace)
    /\ UNCHANGED <<walletKeysJson, files, latestConfirmationPath, tradeData, tradeInfoList, secretStore, walletKeysMap, attempt, txResponse,
                   blockhashWithExpiryBlockHeight, swapTransaction,
                   serializedTransaction, resultsFile, leaseCounter>>

\* a deserializer that accepts every blob
WellFormedAny(blob) == TRUE

\* VersionedTransaction.deserialize accepts the blob
WellFormed(blob) == blob = "blobOK"

\* transaction.sign([wallet.payer]) then serialize()
Sign(blob, key) == <<blob, key>>

\* the call of transactionSenderAndConfirmationWaiter at the given attempt
WaiterCall(att, lease) == Ev("waiter_call", i, att, lease)

\* the first attempt made with the bytes left from before, nothing being
\* deserialized or signed
BlockhashReturnsUnsigned ==
    /\ pc = "blockhash"
    /\ leaseCounter' = leaseCounter + 1
    /\ blockhashWithExpiryBlockHeight' = leaseCounter + 1
    /\ txResponse' = Null
    /\ attempt' = 1
    /\ trace' = Append(trace, WaiterCall(1, leaseCounter + 1))
    /\ pc' = "waiter"
    /\ i' = i
    /\ UNCHANGED <<walletKeysJson, files, latestConfirmationPath, tradeData, tradeInfoList, secretStore, walletKeysMap,
                   swapTransaction, serializedTransaction, resultsFile>>

\* getLatestBlockhash answers; deserialize, sign, serialize; first attempt
BlockhashReturns ==
    /\ pc = "blockhash"
    /\ leaseCounter' = leaseCounter + 1
    /\ blockhashWithExpiryBlockHeight' = leaseCounter + 1
    /\ IF ~WellFormed(swapTransaction)
       THEN /\ CatchFinally(trace)
            /\ UNCHANGED <<serializedTransaction, attempt, txResponse>>
       ELSE /\ serializedTransaction' =
                   Sign(swapTransaction, KeyOf(walletKeysMap, tradeInfoList[i].wallet_address))
            /\ txResponse' = Null
            /\ attempt' = 1
            /\ trace' = Append(trace, WaiterCall(1, leaseCounter + 1))
            /\ pc' = "waiter"
            /\ i' = i
    /\ UNCHANGED <<walletKeysJson, files, latestConfirmationPath, tradeData, tradeInfoList, secretStore, walletKeysMap, swapTransaction, resultsFile>>

BlockhashThrows ==
    /\ pc = "blockhash"
    /\ CatchFinally(trace)
    /\ UNCHANGED <<walletKeysJson, files, latestConfirmationPath, tradeData, tradeInfoList, secretStore, walletKeysMap, attempt, txResponse,
                   blockhashWithExpiryBlockHeight, swapTransaction,
                   serializedTransaction, resultsFile, leaseCounter>>

-----------------------------------------------------------------------------
(* main(): the retry loop around transactionSenderAndConfirmationWaiter *)

\* a retry loop that is off by one
RetryLoopConditionOffByOne(att) == att <= MAX_RETRIES + 1

\* attempt <= MAX_RETRIES, the condition of the retry loop
RetryLoopCondition(att) == att <= MAX_RETRIES

\* attempt === MAX_RETRIES, the test of the catch block of the retry loop
LastAttempt(att) == att = MAX_RETRIES

\* an outcome that is set on the record and on every record after it
SetOutcomeFrom(list, idx, id, st) ==
    [r \in 1..Len(list) |->
        IF r >= idx THEN [list[r] EXCEPT !.transaction_id = id, !.status = st] ELSE list[r]]

\* tradeInfo.transaction_id = ...; tradeInfo.status = ...
SetOutcome(list, idx, id, st) ==
    [list EXCEPT ![idx].transaction_id = id, ![idx].status = st]

\* the waiter returns a confirmed transaction: record it, write, leave the loop,
\* log the completion, run the finally block
WaiterConfirms ==
    /\ pc = "waiter"
    /\ \E resp \in ConfirmedResponses :
        LET transactionId == TransactionId(resp)
            list == SetOutcome(tradeInfoList, i, transactionId, "success")
        IN  /\ txResponse' = resp
            /\ tradeInfoList' = list
            /\ resultsFile' = writeTradeResults(list, headers)
            /\ trace' = trace \o <<Ev("waiter_confirmed", i, attempt, resp.signatures),
                                   Log("log_tx_successful", i),
                                   Ev("write_results", i, attempt, 0),
                                   Log("log_swapped", i),
                                   Log("log_completed_processing", i),
                                   Log("log_completed_status", i),
                                   Log("log_completed", i)>>
    /\ i' = NextIndex(i)
    /\ pc' = "loop"
    /\ UNCHANGED <<walletKeysJson, files, latestConfirmationPath, tradeData, secretStore, walletKeysMap, attempt, blockhashWithExpiryBlockHeight,
                   swapTransaction, serializedTransaction, leaseCounter>>

\* the waiter returns null: the loop goes round without a catch, or ends
WaiterReturnsNull ==
    /\ pc = "waiter"
    /\ txResponse' = Null
    /\ attempt' = attempt + 1
    /\ LET tr1 == Append(trace, Ev("waiter_returned_null", i, attempt, 0)) IN
       IF RetryLoopCondition(attempt + 1)
       THEN /\ trace' = Append(tr1, WaiterCall(attempt + 1, blockhashWithExpiryBlockHeight))
            /\ pc' = "waiter"
            /\ i' = i
       ELSE CatchFinally(tr1)
    /\ UNCHANGED <<walletKeysJson, files, latestConfirmationPath, tradeData, tradeInfoList, secretStore, walletKeysMap,
                   blockhashWithExpiryBlockHeight, swapTransaction,
                   serializedTransaction, resultsFile, leaseCounter>>

\* the waiter throws: log the attempt; on the last attempt record the failure
\* and rethrow, otherwise back off
WaiterThrows ==
    /\ pc = "waiter"
    /\ LET tr1 == trace \o <<Ev("waiter_threw", i, attempt, 0),
                              Ev("log_attempt_failed", i, attempt, 0)>> IN
       IF LastAttempt(attempt)
       THEN LET list == SetOutcome(tradeInfoList, i, "", "failed") IN
            /\ tradeInfoList' = list
            /\ resultsFile' = writeTradeResults(list, headers)
            /\ CatchFinally(Append(tr1, Ev("write_results", i, attempt, 0)))
       ELSE /\ trace' = tr1 \o <<Ev("console_retrying", i, attempt + 1, 0),
                                 Ev("sleep_backoff", i, attempt, exponentialBackoff(attempt))>>
            /\ pc' = "backoff"
            /\ i' = i
            /\ UNCHANGED <<tradeInfoList, resultsFile>>
    /\ UNCHANGED <<walletKeysJson, files, latestConfirmationPath, tradeData, secretStore, walletKeysMap, attempt, txResponse,
                   blockhashWithExpiryBlockHeight, swapTransaction,
                   serializedTransaction, leaseCounter>>

\* a retry that starts over from the quote request
BackoffElapsedRequotes ==
    /\ pc = "backoff"
    /\ attempt' = attempt + 1
    /\ IF RetryLoopCondition(attempt + 1)
       THEN /\ trace' = trace \o <<Log("log_fetching_quote", i), Ev("quote_request", i, 0, 0)>>
            /\ pc' = "quote"
            /\ i' = i
       ELSE CatchFinally(trace)
    /\ UNCHANGED <<walletKeysJson, files, latestConfirmationPath, tradeData, tradeInfoList, secretStore, walletKeysMap, txResponse,
                   blockhashWithExpiryBlockHeight, swapTransaction,
                   serializedTransaction, resultsFile, leaseCounter>>

\* a retry that builds and signs the transaction anew for the attempt
BackoffElapsedResigns ==
    /\ pc = "backoff"
    /\ attempt' = attempt + 1
    /\ IF RetryLoopCondition(attempt + 1)
       THEN /\ trace' = Append(trace, WaiterCall(attempt + 1, blockhashWithExpiryBlockHeight))
            /\ serializedTransaction' =
                   Sign(<<swapTransaction, attempt + 1>>,
                        KeyOf(walletKeysMap, tradeInfoList[i].wallet_address))
            /\ pc' = "waiter"
            /\ i' = i
       ELSE /\ CatchFinally(trace)
            /\ UNCHANGED serializedTransaction
    /\ UNCHANGED <<walletKeysJson, files, latestConfirmationPath, tradeData, tradeInfoList, secretStore, walletKeysMap, txResponse,
                   blockhashWithExpiryBlockHeight, swapTransaction, resultsFile, leaseCounter>>

\* the backoff sleep has elapsed: next round of the retry loop
BackoffElapsed ==
    /\ pc = "backoff"
    /\ attempt' = attempt + 1
    /\ IF RetryLoopCondition(attempt + 1)
       THEN /\ trace' = Append(trace, WaiterCall(attempt + 1, blockhashWithExpiryBlockHeight))
            /\ pc' = "waiter"
            /\ i' = i
       ELSE CatchFinally(trace)
    /\ UNCHANGED <<walletKeysJson, files, latestConfirmationPath, tradeData, tradeInfoList, secretStore, walletKeysMap, txResponse,
                   blockhashWithExpiryBlockHeight, swapTransaction,
                   serializedTransaction, resultsFile, leaseCounter>>

-----------------------------------------------------------------------------

Next ==
    \/ LoadTradesFails
    \/ LoadTrades
    \/ CreateWalletKeysMapFails
    \/ CreateWalletKeysMap
    \/ StartTrade
    \/ DelayElapsed
    \/ Finish
    \/ QuoteReturns
    \/ QuoteThrows
    \/ SwapReturns
    \/ SwapThrows
    \/ BlockhashReturns
    \/ BlockhashThrows
    \/ WaiterConfirms
    \/ WaiterReturnsNull
    \/ WaiterThrows
    \/ BackoffElapsed

Spec == Init /\ [][Next]_vars

-----------------------------------------------------------------------------
(* The run in which no step waits for ever: every network call and every   *)
(* timer answers in the end, so that a step that can be taken is taken.    *)

LiveSpec == Init /\ [][Next]_vars /\ WF_vars(Next)

-----------------------------------------------------------------------------
(* The construction of the key map alone, over every secret payload *)

\* main is entered with an empty batch and a secret store that answers
KeyMapInit ==
    /\ walletKeysJson \in SecretPayloads
    /\ files = <<>>
    /\ latestConfirmationPath = NoPath
    /\ tradeData = NoTradeData
    /\ tradeInfoList = <<>>
    /\ secretStore = "ok"
    /\ walletKeysMap = <<>>
    /\ i = 1
    /\ pc = "main"
    /\ attempt = 0
    /\ txResponse = Null
    /\ blockhashWithExpiryBlockHeight = NoLease
    /\ swapTransaction = ""
    /\ serializedTransaction = <<>>
    /\ resultsFile = NoFile
    /\ leaseCounter = 0
    /\ trace = <<>>

KeyMapNext ==
    \/ CreateWalletKeysMap
    \/ Finish

KeyMapSpec == KeyMapInit /\ [][KeyMapNext]_vars

-----------------------------------------------------------------------------
(* The run with a file system that can refuse a write after a confirmation *)

\* the catch block of the retry loop after an error thrown inside the try
\* block: log the attempt; on the last attempt record the failure, write and
\* rethrow, otherwise back off
RetryCatch(tr, list) ==
    LET tr1 == Append(tr, Ev("log_attempt_failed", i, attempt, 0)) IN
    IF LastAttempt(attempt)
    THEN LET failed == SetOutcome(list, i, "", "failed") IN
         /\ tradeInfoList' = failed
         /\ resultsFile' = writeTradeResults(failed, headers)
         /\ CatchFinally(Append(tr1, Ev("write_results", i, attempt, 0)))
    ELSE /\ tradeInfoList' = list
         /\ trace' = tr1 \o <<Ev("console_retrying", i, attempt + 1, 0),
                              Ev("sleep_backoff", i, attempt, exponentialBackoff(attempt))>>
         /\ pc' = "backoff"
         /\ i' = i
         /\ UNCHANGED resultsFile

\* the waiter returns a confirmed transaction and appendToLog of the
\* 'Transaction successful' line throws: the outcome is not yet set
ConfirmedLogAppendFails ==
    /\ pc = "waiter"
    /\ \E resp \in ConfirmedResponses :
        /\ txResponse' = resp
        /\ RetryCatch(trace \o <<Ev("waiter_confirmed", i, attempt, resp.signatures),
                                 Ev("append_threw", i, attempt, 0)>>,
                      tradeInfoList)
    /\ UNCHANGED <<walletKeysJson, files, latestConfirmationPath, tradeData, secretStore, walletKeysMap, attempt,
                   blockhashWithExpiryBlockHeight, swapTransaction,
                   serializedTransaction, leaseCounter>>

\* the waiter returns a confirmed transaction, the outcome is set and
\* writeTradeResults throws
ConfirmedResultsWriteFails ==
    /\ pc = "waiter"
    /\ \E resp \in ConfirmedResponses :
        /\ txResponse' = resp
        /\ RetryCatch(trace \o <<Ev("waiter_confirmed", i, attempt, resp.signatures),
                                 Log("log_tx_successful", i),
                                 Ev("write_threw", i, attempt, 0)>>,
                      SetOutcome(tradeInfoList, i, TransactionId(resp), "success"))
    /\ UNCHANGED <<walletKeysJson, files, latestConfirmationPath, tradeData, secretStore, walletKeysMap, attempt,
                   blockhashWithExpiryBlockHeight, swapTransaction,
                   serializedTransaction, leaseCounter>>

FaultNext ==
    \/ Next
    \/ ConfirmedLogAppendFails
    \/ ConfirmedResultsWriteFails

FaultSpec == Init /\ [][FaultNext]_vars

-----------------------------------------------------------------------------
(* The selection of the confirmation sheet alone, over every listing *)

SelectInit ==
    /\ files \in Listings
    /\ latestConfirmationPath = NoPath
    /\ tradeData = NoTradeData
    /\ tradeInfoList = <<>>
    /\ secretStore = "ok"
    /\ walletKeysJson = SecretEntries
    /\ walletKeysMap = <<>>
    /\ i = 1
    /\ pc = "select"
    /\ attempt = 0
    /\ txResponse = Null
    /\ blockhashWithExpiryBlockHeight = NoLease
    /\ swapTransaction = ""
    /\ serializedTransaction = <<>>
    /\ resultsFile = NoFile
    /\ leaseCounter = 0
    /\ trace = <<>>

\* const latestConfirmationPath = getLatestTradeConfirmation(TRADE_CONF_DIR)
SelectLatest ==
    /\ pc = "select"
    /\ latestConfirmationPath' = getLatestTradeConfirmation(files)
    /\ pc' = "selected"
    /\ UNCHANGED <<walletKeysJson, files, tradeData, tradeInfoList, secretStore, walletKeysMap, i, attempt,
                   txResponse, blockhashWithExpiryBlockHeight, swapTransaction,
                   serializedTransaction, resultsFile, leaseCounter, trace>>

SelectNext == SelectLatest

SelectSpec == SelectInit /\ [][SelectNext]_vars

-----------------------------------------------------------------------------
(* Vocabulary of the properties *)

N == Len(tradeInfoList)

\* positions of the trace holding an event of this kind for trade t
Events(kind, t) == { k \in DOMAIN trace : trace[k].kind = kind /\ trace[k].trade = t }

\* an event of this kind is in the trace for trade t
Happened(kind, t) == \E k \in DOMAIN trace : trace[k].kind = kind /\ trace[k].trade = t

HasStarted(t) == Happened("log_start", t)

\* the finally block of trade t has run
Completed(t) == Happened("log_completed", t)

\* the catch block of trade t has run
FailedTrade(t) == Happened("log_failed_to_process", t)

Confirmed(t) == Happened("waiter_confirmed", t)

WaiterInvocations(t) == Cardinality(Events("waiter_call", t))

\* the trades in the order their start line was logged
StartOrder ==
    LET starts == SelectSeq(trace, LAMBDA e : e.kind = "log_start")
    IN  [k \in 1..Len(starts) |-> starts[k].trade]

InProgress == { t \in 1..N : HasStarted(t) /\ ~Completed(t) }

\* the retry loop of trade t ended: confirmed, or every attempt used up
Resolved(t) ==
    Completed(t) /\ (Confirmed(t) \/ WaiterInvocations(t) = MAX_RETRIES)

\* the cell of a column in a row of the results file
Cell(file, r, column) ==
    LET c == CHOOSE c \in 1..Len(file.header) : file.header[c] = column
    IN  file.rows[r][c]

HasColumn(file, column) == \E c \in 1..Len(file.header) : file.header[c] = column

-----------------------------------------------------------------------------
(* C1 - Failure isolation: when the processing of trade t ends in an error *)
(* (unknown token, missing credential, quote or swap failure, malformed    *)
(* transaction, exhausted retries) the run is not aborted, the next trade  *)
(* is started next, trades are started in input order, and a finished run  *)
(* has started every trade after t.                                        *)

FailureIsolation ==
    /\ \A k \in 1..Len(StartOrder) : StartOrder[k] = k
    /\ \A t \in 1..N : FailedTrade(t) =>
        /\ pc # "exit1"
        /\ t < N => (HasStarted(t + 1) \/ (pc = "loop" /\ i = t + 1))
        /\ pc = "done" => \A u \in (t + 1)..N : HasStarted(u)

\* the first trade used up its retries, the second was still processed
FailureIsolationWitness ==
    /\ pc = "done"
    /\ N >= 2
    /\ FailedTrade(1)
    /\ WaiterInvocations(1) = MAX_RETRIES
    /\ Completed(2)

-----------------------------------------------------------------------------
(* C2 - Retry bound: for every trade the confirmation waiter is invoked at *)
(* most MAX_RETRIES = 3 times, whatever it returns.                        *)

RetryBound ==
    /\ MAX_RETRIES = 3
    /\ \A t \in 1..N : WaiterInvocations(t) <= 3

\* a trade that used all three attempts, with an empty result and an error
RetryBoundWitness ==
    \E t \in 1..N :
        /\ Completed(t)
        /\ WaiterInvocations(t) = 3
        /\ Events("waiter_returned_null", t) # {}
        /\ Events("waiter_threw", t) # {}

-----------------------------------------------------------------------------
(* C3 - Blockhash freshness: no two attempts of the same trade pass the    *)
(* identical lease to the confirmation waiter.                             *)

BlockhashFreshness ==
    \A a, b \in DOMAIN trace :
        ( /\ a < b
          /\ trace[a].kind = "waiter_call"
          /\ trace[b].kind = "waiter_call"
          /\ trace[a].trade = trace[b].trade )
        => trace[a].arg # trace[b].arg

-----------------------------------------------------------------------------
(* C4 - Exhausted retries: a trade whose MAX_RETRIES attempts all ended    *)
(* without a confirmed transaction has status 'failed' and an empty        *)
(* transaction_id.                                                         *)

ExhaustedRetriesRecorded ==
    \A t \in 1..N :
        (Completed(t) /\ WaiterInvocations(t) = MAX_RETRIES /\ ~Confirmed(t))
        => /\ tradeInfoList[t].status = "failed"
           /\ tradeInfoList[t].transaction_id = ""

-----------------------------------------------------------------------------
(* C5 - Success transition: once the waiter has returned a confirmed       *)
(* transaction at attempt n in 1..3, the trade has status 'success', its   *)
(* transaction_id is the first signature of that transaction, and the      *)
(* waiter is not invoked again for that trade.                             *)

SuccessTransition ==
    \A k \in DOMAIN trace : trace[k].kind = "waiter_confirmed" =>
        LET t == trace[k].trade IN
        /\ trace[k].attempt \in 1..3
        /\ tradeInfoList[t].status = "success"
        /\ tradeInfoList[t].transaction_id = trace[k].arg[1]
        /\ \A m \in DOMAIN trace :
              (m > k /\ trace[m].trade = t) => trace[m].kind # "waiter_call"

\* a confirmation at the third attempt of a transaction with two signatures
SuccessTransitionWitness ==
    \E k \in DOMAIN trace :
        /\ trace[k].kind = "waiter_confirmed"
        /\ trace[k].attempt = 3
        /\ Len(trace[k].arg) = 2
        /\ Completed(trace[k].trade)

-----------------------------------------------------------------------------
(* C6 - Results completeness: when the run has finished, the results file  *)
(* has as many data rows as the input and every row has a status that is   *)
(* 'success' or 'failed'.                                                  *)

ResultsComplete ==
    pc = "done" =>
        /\ resultsFile.exists
        /\ Len(resultsFile.rows) = N
        /\ HasColumn(resultsFile, "status")
        /\ \A r \in 1..N : Cell(resultsFile, r, "status") \in {"success", "failed"}

-----------------------------------------------------------------------------
(* C7 - Incremental journaling: between two trades, every trade whose      *)
(* retry loop ended (success or exhausted retries) has had the results     *)
(* file rewritten, and the file shows the outcome of that trade.           *)

IncrementalJournaling ==
    pc = "loop" =>
        \A t \in 1..N : Resolved(t) =>
            /\ Events("write_results", t) # {}
            /\ resultsFile.exists
            /\ Cell(resultsFile, t, "status") = (IF Confirmed(t) THEN "success" ELSE "failed")

-----------------------------------------------------------------------------
(* C8 - Per-trade fatal outcome: a trade that ended on an error raised     *)
(* before submission (for one, a swap answer without a transaction         *)
(* payload) is marked 'failed' with an empty transaction_id, the results   *)
(* file shows it, and the batch goes on to the next record.                *)

PerTradeFatalRecorded ==
    \A t \in 1..N :
        (Completed(t) /\ FailedTrade(t) /\ WaiterInvocations(t) = 0) =>
            /\ tradeInfoList[t].status = "failed"
            /\ tradeInfoList[t].transaction_id = ""
            /\ resultsFile.exists
            /\ Cell(resultsFile, t, "status") = "failed"
            /\ t < N => (HasStarted(t + 1) \/ (pc = "loop" /\ i = t + 1))

-----------------------------------------------------------------------------
(* C9 - Backoff schedule: attempt n+1 of a trade is preceded by a sleep of *)
(* min(2000 * 2^n, 30000) ms taken after attempt n failed; a trade         *)
(* confirmed at attempt 3 has slept 4000 ms, then 8000 ms.                 *)

\* the backoff sleeps of trade t, in order
BackoffWaits(t) ==
    LET sleeps == SelectSeq(trace, LAMBDA e : e.kind = "sleep_backoff" /\ e.trade = t)
    IN  [k \in 1..Len(sleeps) |-> sleeps[k].arg]

BackoffSchedule ==
    /\ \A k \in DOMAIN trace :
          (trace[k].kind = "waiter_call" /\ trace[k].attempt > 1) =>
              \E m \in 1..(k - 1) :
                  /\ trace[m].kind = "sleep_backoff"
                  /\ trace[m].trade = trace[k].trade
                  /\ trace[m].attempt = trace[k].attempt - 1
                  /\ trace[m].arg = Min(2000 * Pow2(trace[m].attempt), 30000)
    /\ \A k \in DOMAIN trace :
          (trace[k].kind = "waiter_confirmed" /\ trace[k].attempt = 3) =>
              BackoffWaits(trace[k].trade) = <<4000, 8000>>

\* what the code does keep: every backoff sleep follows an attempt that raised
\* an error, and lasts min(2000 * 2^n, 30000) ms for attempt n
BackoffAfterError ==
    \A m \in DOMAIN trace : trace[m].kind = "sleep_backoff" =>
        /\ trace[m].arg = Min(2000 * Pow2(trace[m].attempt), 30000)
        /\ \E k \in 1..(m - 1) :
              /\ trace[k].kind = "waiter_threw"
              /\ trace[k].trade = trace[m].trade
              /\ trace[k].attempt = trace[m].attempt

-----------------------------------------------------------------------------
(* C10 - Strict sequencing: at most one trade is in progress; the events   *)
(* of the trades come in input order, and the first event of trade t+1,    *)
(* its start line, comes right after the completion line of trade t (for   *)
(* the first trade, right after the startup).                              *)

\* the events so far are those of one trade after the other
Sequenced ==
    LET inProgress == InProgress IN
    /\ Cardinality(inProgress) <= 1
    /\ inProgress \subseteq {i}
    /\ pc = "loop" => (inProgress = {} /\ i = Len(StartOrder) + 1)
    /\ pc = "done" => \A t \in 1..N : Completed(t)
    /\ \A k \in 1..(Len(trace) - 1) :
          LET a == trace[k]
              b == trace[k + 1]
          IN  \/ /\ a.trade = 0
                 /\ b.trade = 0 \/ (b.trade = 1 /\ b.kind = "log_start")
              \/ /\ a.trade > 0
                 /\ b.trade = a.trade
                 /\ a.kind # "log_completed"
                 /\ b.kind # "log_start"
              \/ /\ a.trade > 0
                 /\ b.trade = a.trade + 1
                 /\ a.kind = "log_completed"
                 /\ b.kind = "log_start"

StrictSequencing == []Sequenced

\* two trades done, the first through a backoff sleep, the second after its delay
StrictSequencingWitness ==
    /\ pc = "done"
    /\ N >= 2
    /\ Events("sleep_backoff", 1) # {}
    /\ Events("sleep_delay", 2) # {}
    /\ Completed(2)

-----------------------------------------------------------------------------
(* C11 - Fatal precondition: when the secret store is unreachable or its   *)
(* configuration is missing, the run ends with exit status 1 and no trade  *)
(* is attempted: no event of any trade, no quote request, no submission    *)
(* and no results write.                                                   *)

FatalPrecondition ==
    secretStore # "ok" =>
        /\ pc \in {"load", "main", "exit1"}
        /\ resultsFile = NoFile
        /\ \A k \in DOMAIN trace :
              /\ trace[k].trade = 0
              /\ trace[k].kind \notin {"log_start", "quote_request", "swap_request",
                                       "waiter_call", "write_results"}

\* a loaded batch, a secret store without configuration, the process has exited
FatalPreconditionWitness ==
    /\ secretStore = "misconfigured"
    /\ Len(tradeInfoList) >= 1
    /\ pc = "exit1"

-----------------------------------------------------------------------------
(* C12 - Loader rejects empty input: when no file has the prefix, or the   *)
(* selected file has no data rows, loading fails and the run aborts before *)
(* any trade; it does not go on to main and complete with zero trades.     *)

LoaderRejectsEmptyInput ==
    (tradeData.isNull \/ Len(tradeData.rows) = 0) =>
        /\ pc \in {"load", "exit1"}
        /\ trace = <<>>

-----------------------------------------------------------------------------
(* C13 - All-or-nothing validation: after a successful load every record   *)
(* has its core fields non-empty; a sheet that lacks a core column or has  *)
(* a row with an empty core cell makes the load fail, and no trade of the  *)
(* batch is attempted.                                                     *)

\* the core columns the model carries
CoreFields == {"wallet_address", "coin_amount", "slippage_in_pct", "from_token_address"}

\* the sheet lacks a core column, or a row has an empty core cell
InvalidSheet(data) ==
    \/ \E f \in CoreFields : \A c \in 1..Len(data.header) : Trim(data.header[c]) # f
    \/ \E r \in 1..Len(data.rows) : \E c \in 1..Len(data.header) :
          Trim(data.header[c]) \in CoreFields /\ Trim(data.rows[r][c]) = ""

AllOrNothingValidation ==
    /\ pc \notin {"load", "exit1"} =>
          \A t \in 1..Len(tradeInfoList) : \A f \in CoreFields : tradeInfoList[t][f] # ""
    /\ (~tradeData.isNull /\ Len(tradeData.rows) > 0 /\ InvalidSheet(tradeData)) =>
          /\ pc \in {"load", "exit1"}
          /\ \A k \in DOMAIN trace : trace[k].trade = 0

-----------------------------------------------------------------------------
(* C14 - Per-trade fatal errors stop before the network: for a trade whose *)
(* source token is not in the token metadata, or whose wallet has no key   *)
(* in the key map, no quote request, swap request, blockhash fetch or      *)
(* submission is made; the error is logged and only that trade is aborted. *)

NetworkKinds == {"quote_request", "swap_request", "get_blockhash", "waiter_call"}

\* the token of trade t is unknown or its wallet has no key
NoTokenOrNoKey(t) ==
    \/ tradeInfoList[t].from_token_address \notin DOMAIN TokenInfo
    \/ tradeInfoList[t].wallet_address \notin DOMAIN SecretWalletKeys

FatalBeforeNetwork ==
    \A t \in 1..N : (HasStarted(t) /\ NoTokenOrNoKey(t)) =>
        /\ \A k \in DOMAIN trace : trace[k].trade = t => trace[k].kind \notin NetworkKinds
        /\ Completed(t) => FailedTrade(t)
        /\ pc # "exit1"
        /\ (Completed(t) /\ t < N) => (HasStarted(t + 1) \/ (pc = "loop" /\ i = t + 1))

\* the first trade names an unknown token, the second has reached the quote API
FatalBeforeNetworkWitness ==
    /\ N >= 2
    /\ tradeInfoList[1].from_token_address \notin DOMAIN TokenInfo
    /\ FailedTrade(1)
    /\ Events("quote_request", 2) # {}

-----------------------------------------------------------------------------
(* C15 - Signer failure is non-retryable: when deserializing or signing    *)
(* the unsigned transaction blob fails for a trade, the trade fails at     *)
(* once, the confirmation waiter is never invoked for it, no backoff sleep *)
(* is taken for it, and the batch continues with the next record.          *)

\* the swap API answered trade t with a blob that does not deserialize
MalformedBlob(t) ==
    \E k \in DOMAIN trace :
        /\ trace[k].kind = "swap_response"
        /\ trace[k].trade = t
        /\ trace[k].arg = "blobBad"

\* the blockhash fetch of trade t has answered, so the signer has run
SignerRan(t) ==
    /\ Events("get_blockhash", t) # {}
    /\ ~(pc = "blockhash" /\ i = t)

SignerFailureNotRetried ==
    \A t \in 1..N : MalformedBlob(t) =>
        /\ \A k \in DOMAIN trace :
              trace[k].trade = t =>
                  trace[k].kind \notin {"waiter_call", "sleep_backoff", "write_results"}
        /\ SignerRan(t) => (FailedTrade(t) /\ Completed(t))
        /\ pc # "exit1"
        /\ (Completed(t) /\ t < N) => (HasStarted(t + 1) \/ (pc = "loop" /\ i = t + 1))

\* the signer rejected the blob of the first trade and the second trade is submitted
SignerFailureWitness ==
    /\ N >= 2
    /\ MalformedBlob(1)
    /\ FailedTrade(1)
    /\ Events("waiter_call", 2) # {}

-----------------------------------------------------------------------------
(* C16 - The quote is not retried: for every trade at most one quote       *)
(* request and at most one swap-build request are issued, however many     *)
(* submission attempts the retry loop makes.                               *)

\* no request of the quote service was made twice for a trade so far
RequestedOnce ==
    \A j \in DOMAIN trace :
        trace[j].kind \in {"quote_request", "swap_request", "swap_response"} =>
            \A k \in (j + 1)..Len(trace) :
                ~(trace[k].kind = trace[j].kind /\ trace[k].trade = trace[j].trade)

QuoteNotRetried == []RequestedOnce

\* a trade was submitted three times, the first attempt having thrown
QuoteNotRetriedWitness ==
    \E t \in 1..N :
        /\ WaiterInvocations(t) = MAX_RETRIES
        /\ Events("sleep_backoff", t) # {}
        /\ Completed(t)

-----------------------------------------------------------------------------
(* C17 - Inter-trade pacing: for every record other than the first, the    *)
(* run sleeps that record's delay_seconds (5 seconds when the column is    *)
(* absent or empty) right after the start line and before any other step   *)
(* of that record, whatever the outcome of the previous trade; for the     *)
(* first record no delay is applied.                                       *)

\* the delay of record t in milliseconds, read from the input sheet
RecordDelayMs(t) ==
    LET cell == IF HasColumn([header |-> headers], "delay_seconds")
                THEN Trim(Cell(tradeData, t, CHOOSE h \in { tradeData.header[c] :
                                                 c \in 1..Len(tradeData.header) } :
                                                 Trim(h) = "delay_seconds"))
                ELSE ""
    IN  IF cell = "" THEN 5000 ELSE DecimalStrings[cell] * 1000

InterTradePacing ==
    \A j \in DOMAIN trace :
        LET t == trace[j].trade IN
        /\ trace[j].kind = "log_start" =>
              /\ \A k \in 1..(j - 1) : trace[k].trade # t
              /\ (t > 1 /\ RecordDelayMs(t) > 0) =>
                    /\ Len(trace) >= j + 2
                    /\ trace[j + 2].kind = "sleep_delay"
                    /\ Len(trace) > j + 2 => ~(pc = "delay" /\ i = t)
        /\ trace[j].kind = "sleep_delay" =>
              /\ t > 1
              /\ trace[j].arg = RecordDelayMs(t)
              /\ trace[j].arg > 0
              /\ j > 2
              /\ trace[j - 1].kind = "log_waiting" /\ trace[j - 1].trade = t
              /\ trace[j - 2].kind = "log_start" /\ trace[j - 2].trade = t

\* after a failed first trade the second record, whose delay cell is empty,
\* has slept five seconds and gone on to the quote request
InterTradePacingWitness ==
    /\ N >= 2
    /\ FailedTrade(1)
    /\ RecordDelayMs(2) = 5000
    /\ Events("sleep_delay", 2) # {}
    /\ Events("quote_request", 2) # {}

-----------------------------------------------------------------------------
(* C18 - Completion log line: for every trade, whether it succeeded, used  *)
(* up its retries or failed with a per-trade fatal error, a completion     *)
(* line for that trade is appended as the last log line of that trade,     *)
(* after any failure line and before the start line of the next trade.     *)

\* the loop has left trade t behind
Over(t) == i # t \/ pc \in {"loop", "done"}

\* the completion lines so far close the events of their trades
CompletedLast ==
    \A j \in DOMAIN trace :
        LET t == trace[j].trade IN
        /\ trace[j].kind = "log_start" /\ Over(t) =>
              \E k \in (j + 1)..Len(trace) :
                  trace[k].kind = "log_completed" /\ trace[k].trade = t
        /\ trace[j].kind = "log_completed" =>
              /\ Over(t)
              /\ \A k \in 1..(j - 1) : trace[k].trade <= t
              /\ \A k \in (j + 1)..Len(trace) : trace[k].trade > t
              /\ trace[j - 1].trade = t
              /\ trace[j - 1].kind \in {"log_failed_to_process", "log_completed_status"}

CompletionLineLast == []CompletedLast

\* a run of two trades is over: the first used up its retries, the second
\* was confirmed
CompletionLineLastWitness ==
    /\ N = 2
    /\ pc = "done"
    /\ FailedTrade(1) /\ WaiterInvocations(1) = MAX_RETRIES
    /\ Confirmed(2)
    /\ Completed(1) /\ Completed(2)

-----------------------------------------------------------------------------
(* C19 - Audit trail: every failed attempt, every backoff wait and every   *)
(* inter-trade delay of a run produces a line in the append-only log file, *)
(* and each failed-attempt line carries the wallet (the trade) and the     *)
(* attempt number.                                                         *)

\* the events that are lines of the log file
LogFileLine(e) ==
    e.kind \in {"log_found_trades", "log_start", "log_waiting", "log_processing",
                "log_wallet_init", "log_fetching_quote", "log_quote_response",
                "log_tx_successful", "log_swapped", "log_completed_processing",
                "log_completed_status", "log_attempt_failed",
                "log_failed_to_process", "log_completed"}

\* an attempt that did not end in a confirmation
FailedAttempt(e) == e.kind \in {"waiter_threw", "waiter_returned_null"}

Wait(e) == e.kind \in {"sleep_backoff", "sleep_delay"}

AuditTrail ==
    \A k \in DOMAIN trace :
        /\ FailedAttempt(trace[k]) =>
              /\ k < Len(trace)
              /\ trace[k + 1].kind = "log_attempt_failed"
              /\ trace[k + 1].trade = trace[k].trade
              /\ trace[k + 1].attempt = trace[k].attempt
        /\ Wait(trace[k]) =>
              /\ k > 1
              /\ LogFileLine(trace[k - 1])
              /\ trace[k - 1].trade = trace[k].trade

-----------------------------------------------------------------------------
(* C20 - Round trip of the input columns: the header of the results file   *)
(* is the input header followed by transaction_id and status, each column  *)
(* once, and for every row and every input column, passthrough columns     *)
(* included, the value written is the trimmed value read from the input.   *)

OutcomeColumns == {"transaction_id", "status"}

RoundTrip ==
    resultsFile.exists =>
        /\ resultsFile.header = Dedupe(headers \o <<"transaction_id", "status">>)
        /\ Len(resultsFile.rows) = Len(tradeData.rows)
        /\ \A r \in 1..Len(tradeData.rows) : \A c \in 1..Len(tradeData.header) :
              Trim(tradeData.header[c]) \notin OutcomeColumns =>
                  Cell(resultsFile, r, Trim(tradeData.header[c])) = Trim(tradeData.rows[r][c])

-----------------------------------------------------------------------------
(* C21 - Single output files per run: within one run every write of the    *)
(* results goes to the same results file and every log append goes to the  *)
(* same log file, whatever the wall-clock time of the write.               *)

\* milliseconds the run has slept before event k: the least time the wall
\* clock has advanced since the process started
RECURSIVE Elapsed(_)
Elapsed(k) ==
    IF k = 0 THEN 0
    ELSE Elapsed(k - 1) + (IF Wait(trace[k]) THEN trace[k].arg ELSE 0)

\* getTimestamp() without a confirmation path: the wall clock to the second
getTimestamp(ms) == ms \div 1000

\* the file appendToLog or writeTradeResults opens for event k
FileNameAt(k) == getTimestamp(Elapsed(k - 1))

SingleOutputFiles ==
    \A j \in DOMAIN trace : \A k \in DOMAIN trace :
        /\ (LogFileLine(trace[j]) /\ LogFileLine(trace[k])) => FileNameAt(j) = FileNameAt(k)
        /\ (trace[j].kind = "write_results" /\ trace[k].kind = "write_results") =>
              FileNameAt(j) = FileNameAt(k)

-----------------------------------------------------------------------------
(* C22 - Amount conversion: for every trade the quote request carries      *)
(* amount = floor(coin_amount * 10^d), d the decimals of the source token  *)
(* in the token metadata, and slippageBps = floor(slippage_in_pct * 100);  *)
(* amount 1.5 with 9 decimals and slippage 0.5 give 1500000000 and 50.     *)

\* floor(n / 10^k * 10^d) of the decimal text s, in exact arithmetic
ExactFloor(s, d) ==
    LET n == Decimals[s].n
        k == Decimals[s].k
    IN  IF d >= k THEN n * 10 ^ (d - k) ELSE n \div 10 ^ (k - d)

AmountConversion ==
    /\ ExactFloor("1.5", 9) = 1500000000 /\ ExactFloor("0.5", 2) = 50
    /\ \A j \in DOMAIN trace : trace[j].kind = "quote_request" =>
          LET tradeInfo == tradeInfoList[trace[j].trade]
              d == TokenInfo[tradeInfo.from_token_address]
          IN  /\ tradeInfo.coin_amount \in DOMAIN Decimals =>
                    /\ ~trace[j].arg.amount.nan
                    /\ trace[j].arg.amount.val = ExactFloor(tradeInfo.coin_amount, d)
              /\ tradeInfo.slippage_in_pct \in DOMAIN Decimals =>
                    /\ ~trace[j].arg.slippageBps.nan
                    /\ trace[j].arg.slippageBps.val = ExactFloor(tradeInfo.slippage_in_pct, 2)

-----------------------------------------------------------------------------
(* C23 - Latest-file selection: for every directory listing the selection  *)
(* returns the lexicographically largest name among those that start with  *)
(* the prefix, ignores all other files, and returns null when no name has  *)
(* the prefix.                                                             *)

\* a is a proper prefix of b, or a has the smaller unit where they first differ
LexBefore(a, b) ==
    \E k \in 1..Len(b) :
        /\ \A j \in 1..(k - 1) : j <= Len(a) /\ a[j] = b[j]
        /\ (k > Len(a) \/ (k <= Len(a) /\ a[k] < b[k]))

\* the names of the listing that carry the prefix
Matching ==
    { files[k] : k \in { j \in DOMAIN files :
        Len(files[j]) >= 2 /\ files[j][1] = 116 /\ files[j][2] = 95 } }

LatestFileSelection ==
    pc = "selected" =>
        IF Matching = {}
        THEN latestConfirmationPath.isNull
        ELSE /\ ~latestConfirmationPath.isNull
             /\ latestConfirmationPath.name \in Matching
             /\ \A f \in Matching :
                   f = latestConfirmationPath.name \/ LexBefore(f, latestConfirmationPath.name)

\* t_2 was selected from a listing that holds it first, then zz, then t_10
LatestFileSelectionWitness ==
    /\ pc = "selected"
    /\ files = <<Prefix \o <<50>>, <<122, 122>>, Prefix \o <<49, 48>>>>
    /\ latestConfirmationPath = [isNull |-> FALSE, name |-> Prefix \o <<50>>]

-----------------------------------------------------------------------------
(* C24 - The wallet key map is built once and frozen: the secret store is  *)
(* queried exactly once per run, before the first trade, and the map is    *)
(* left unchanged by every later step of every trade.                      *)

KeyMapBuiltOnce ==
    /\ \A j \in DOMAIN trace : trace[j].kind = "get_secret" =>
          /\ \A k \in 1..(j - 1) : trace[k].trade = 0
          /\ \A k \in (j + 1)..Len(trace) : trace[k].kind # "get_secret"
    /\ pc \in {"load", "main"} => walletKeysMap = <<>>
    /\ pc \in {"loop", "delay", "quote", "swap", "blockhash", "waiter", "backoff", "done"} =>
          /\ walletKeysMap = SecretWalletKeys
          /\ \E j \in DOMAIN trace : trace[j].kind = "get_secret"

\* a finished run of two trades that both used a key of the map
KeyMapBuiltOnceWitness ==
    /\ pc = "done"
    /\ N = 2
    /\ Events("quote_request", 1) # {}
    /\ Events("quote_request", 2) # {}
    /\ walletKeysMap = SecretWalletKeys

-----------------------------------------------------------------------------
(* C25 - Key confidentiality: no private key of the key map appears in the *)
(* results file or in a line of the log, and what a run puts out for a     *)
(* record is the same whatever key text the key map holds for the record's *)
(* wallet: a second run that differs from this one only in that key puts   *)
(* out the same events from 'Processing trade' on and takes the same       *)
(* branch. The key is read nowhere else but in the signer, whose result    *)
(* goes to the network only.                                               *)

\* what this run put out for the record that started at position j
PutOut(j, n) == SubSeq(trace, j, j + n - 1)

\* no cell of the results file is a private key
NoKeyInResults ==
    resultsFile.exists =>
        \A r \in DOMAIN resultsFile.rows : \A c \in DOMAIN resultsFile.rows[r] :
            resultsFile.rows[r][c] \notin KeyValues

\* the run with key text other for the wallet of record t puts out what this
\* run put out from position j on
SameOutputs(j, t, other) ==
    LET tradeInfo == tradeInfoList[t]
        mine == PrepareOutcome(tradeInfo, KeyOf(walletKeysMap, tradeInfo.wallet_address), t)
        theirs == PrepareOutcome(tradeInfo, other, t)
    IN  /\ theirs.next = mine.next
        /\ Len(theirs.events) = Len(mine.events)
        /\ j + Len(theirs.events) - 1 <= Len(trace)
        /\ PutOut(j, Len(theirs.events)) = theirs.events

SameForValidKeys ==
    /\ NoKeyInResults
    /\ \A j \in DOMAIN trace : trace[j].kind = "log_processing" =>
          LET t == trace[j].trade
              address == tradeInfoList[t].wallet_address
          IN  /\ address \in DOMAIN walletKeysMap
              /\ ValidSecretKey(walletKeysMap[address])
              => \A other \in KeyValues : ValidSecretKey(other) => SameOutputs(j, t, other)

-----------------------------------------------------------------------------
(* C26 - Field trimming: every field of every loaded trade record has no   *)
(* white space at its ends and no carriage return or line feed, whatever   *)
(* the input file holds, files with CRLF line ends included.               *)

\* the fields the loader fills from the sheet
LoadedFields ==
    {"wallet_address", "from_token_address", "delay_seconds", "coin_amount", "slippage_in_pct"}

\* the texts with white space at an end or a line break anywhere
Untrimmed == {" wallet_address", "delay_seconds\r", " W1 ", "3\r", " ", "W\n1"}

\* the sheet has a cell that needs trimming
UntrimmedInput ==
    /\ ~tradeData.isNull
    /\ \E r \in DOMAIN tradeData.rows : \E c \in DOMAIN tradeData.rows[r] :
          tradeData.rows[r][c] \in Untrimmed

FieldTrimming ==
    \A t \in DOMAIN tradeInfoList : \A f \in LoadedFields :
        tradeInfoList[t][f] \notin Untrimmed

\* a sheet with a line break inside a cell and one with CRLF line ends are loaded
FieldTrimmingWitness ==
    /\ UntrimmedInput
    /\ tradeInfoList # <<>>
    /\ \E r \in DOMAIN tradeData.rows : \E c \in DOMAIN tradeData.rows[r] :
          tradeData.rows[r][c] \in {"W\n1", "3\r"}

-----------------------------------------------------------------------------
(* C28 - A confirmed transaction is never recorded as failed: once the     *)
(* waiter has returned a confirmed transaction for a trade, the waiter is  *)
(* not called again for that trade, and when the trade is over its status  *)
(* is 'success' and its transaction_id is the first signature of that      *)
(* transaction, also when the log append or the results write that follows *)
(* the confirmation throws.                                                *)

ConfirmedNeverFailed ==
    \A j \in DOMAIN trace : trace[j].kind = "waiter_confirmed" =>
        LET t == trace[j].trade
        IN  /\ \A k \in (j + 1)..Len(trace) :
                  ~(trace[k].kind = "waiter_call" /\ trace[k].trade = t)
            /\ Over(t) =>
                  /\ tradeInfoList[t].status = "success"
                  /\ tradeInfoList[t].transaction_id = trace[j].arg[1]

-----------------------------------------------------------------------------
(* C29 - Outcome fields are set once and are consistent: in every state    *)
(* the status of each trade is unset, 'success' or 'failed'; a status that *)
(* is set is never changed by a later step; and the transaction_id is      *)
(* non-empty exactly when the status is 'success'.                         *)

OutcomeConsistent ==
    \A t \in DOMAIN tradeInfoList :
        /\ tradeInfoList[t].status \in {Undefined, "success", "failed"}
        /\ ~Falsy(tradeInfoList[t].transaction_id) <=> tradeInfoList[t].status = "success"

StatusKept ==
    \A t \in DOMAIN tradeInfoList :
        tradeInfoList[t].status # Undefined =>
            tradeInfoList'[t].status = tradeInfoList[t].status

OutcomeSetOnce == []OutcomeConsistent /\ [][StatusKept]_vars

-----------------------------------------------------------------------------
(* C30 - One transaction per trade: the signed bytes of a trade are made   *)
(* once, from the one swap payload the trade received, before the first    *)
(* attempt; at every call of the waiter and during every backoff the bytes *)
(* handed to the waiter are those bytes, so that no retry sends another    *)
(* transaction.                                                            *)

\* the swap payloads trade t has received
PayloadsOf(t) ==
    { trace[j].arg : j \in { k \in DOMAIN trace :
                               trace[k].kind = "swap_response" /\ trace[k].trade = t } }

OneTransactionPerTrade ==
    pc \in {"waiter", "backoff"} =>
        \E payload \in PayloadsOf(i) :
            /\ PayloadsOf(i) = {payload}
            /\ Cardinality({ k \in DOMAIN trace :
                               trace[k].kind = "swap_response" /\ trace[k].trade = i }) = 1
            /\ serializedTransaction =
                  Sign(payload, KeyOf(walletKeysMap, tradeInfoList[i].wallet_address))

\* the third attempt of a trade is under way after two failed ones
OneTransactionPerTradeWitness ==
    /\ pc = "waiter"
    /\ attempt = MAX_RETRIES
    /\ Cardinality({ k \in DOMAIN trace :
                       trace[k].kind = "waiter_call" /\ trace[k].trade = i }) = MAX_RETRIES
    /\ \E k \in DOMAIN trace : trace[k].kind = "sleep_backoff" /\ trace[k].trade = i

-----------------------------------------------------------------------------
(* C31 - Backoff between all attempts: between two consecutive calls of    *)
(* the waiter for the same trade the trace holds exactly one backoff sleep *)
(* and exactly one 'Attempt n/3 failed' line, whether the earlier attempt  *)
(* threw or returned nothing.                                              *)

\* positions of events of this kind strictly between positions a and b
Between(kind, a, b) == { m \in (a + 1)..(b - 1) : trace[m].kind = kind }

\* position of the call of the waiter that precedes the one at position k
PreviousCall(k) ==
    CHOOSE j \in 1..(k - 1) :
        /\ trace[j].kind = "waiter_call"
        /\ trace[j].trade = trace[k].trade
        /\ \A m \in (j + 1)..(k - 1) : trace[m].kind # "waiter_call"

BackoffBetweenAttempts ==
    \A k \in DOMAIN trace :
        (trace[k].kind = "waiter_call" /\ trace[k].attempt > 1) =>
            /\ Cardinality(Between("sleep_backoff", PreviousCall(k), k)) = 1
            /\ Cardinality(Between("log_attempt_failed", PreviousCall(k), k)) = 1

-----------------------------------------------------------------------------
(* C32 - Pipeline order within a trade: every call of the waiter for a     *)
(* trade comes after, for that trade and in this order, the 'Processing    *)
(* trade' line of a record whose token has decimals, the wallet            *)
(* initialization with a key that decodes, the quote response, a swap      *)
(* response with a payload, and the blockhash request; the call carries a  *)
(* blockhash that was drawn, and while the waiter runs the bytes it was    *)
(* given are the signature of that payload with that key.                  *)

\* in the events tr, trade t has an event of this kind before position k,
\* and then rest holds of the position of that event
Earlier(tr, kind, t, k, rest(_)) ==
    \E m \in 1..(k - 1) : tr[m].kind = kind /\ tr[m].trade = t /\ rest(m)

\* the steps of the pipeline of trade t all lie before position k, in order
PipelineBefore(tr, t, k) ==
    Earlier(tr, "get_blockhash", t, k, LAMBDA e :
      Earlier(tr, "swap_response", t, e, LAMBDA d :
        /\ ~Falsy(tr[d].arg)
        /\ Earlier(tr, "swap_request", t, d, LAMBDA c2 :
             Earlier(tr, "log_quote_response", t, c2, LAMBDA c :
               Earlier(tr, "quote_request", t, c, LAMBDA q :
                 Earlier(tr, "log_wallet_init", t, q, LAMBDA b :
                   Earlier(tr, "log_processing", t, b, LAMBDA a : TRUE)))))))

\* a step that calls the waiter calls it after the pipeline of the trade;
\* the events of a run are never taken back, so this holds of every call
CalledAfterPipeline ==
    \A k \in (Len(trace) + 1)..Len(trace') : trace'[k].kind = "waiter_call" =>
        LET t == trace'[k].trade
        IN  /\ PipelineBefore(trace', t, k)
            /\ trace'[k].arg \in 1..leaseCounter'
            /\ tradeInfoList'[t].from_token_address \in DOMAIN TokenInfo
            /\ tradeInfoList'[t].wallet_address \in DOMAIN walletKeysMap'

\* while the waiter runs, the bytes it was given are the signed payload
WaiterHoldsSigned ==
    pc = "waiter" =>
        /\ swapTransaction = "blobOK"
        /\ serializedTransaction = <<swapTransaction, walletKeysMap[tradeInfoList[i].wallet_address]>>

\* the events of a run are only added to
TraceGrows == Len(trace') >= Len(trace) /\ SubSeq(trace', 1, Len(trace)) = trace

PipelineOrder == []WaiterHoldsSigned /\ [][CalledAfterPipeline /\ TraceGrows]_vars

\* a trade went through the whole pipeline and is at its second attempt
PipelineOrderWitness ==
    /\ pc = "waiter"
    /\ attempt = 2
    /\ \E k \in DOMAIN trace : trace[k].kind = "waiter_call" /\ trace[k].trade = 2

-----------------------------------------------------------------------------
(* C33 - Snapshot consistency: in the results file as written while trade  *)
(* w was being processed, every row after w has an empty transaction_id    *)
(* and an empty status, and every row before w shows the outcome trade j   *)
(* had when its processing ended (nothing, when it ended without one).     *)

\* the trade during which the results file was last written
LastWriter ==
    trace[CHOOSE k \in DOMAIN trace :
            /\ trace[k].kind = "write_results"
            /\ \A m \in (k + 1)..Len(trace) : trace[m].kind # "write_results"].trade

\* the text a results cell shows for an outcome value
Shown(v) == IF v = Undefined THEN "" ELSE v

SnapshotConsistency ==
    resultsFile.exists =>
        LET w == LastWriter IN
        /\ Len(resultsFile.rows) = N
        /\ \A j \in 1..N :
              /\ j > w =>
                    /\ Cell(resultsFile, j, "status") = ""
                    /\ Cell(resultsFile, j, "transaction_id") = ""
              /\ j < w =>
                    /\ Cell(resultsFile, j, "status") = Shown(tradeInfoList[j].status)
                    /\ Cell(resultsFile, j, "transaction_id") =
                          Shown(tradeInfoList[j].transaction_id)

\* the file was written during the second trade, after a first trade that
\* was confirmed
SnapshotConsistencyWitness ==
    /\ resultsFile.exists
    /\ N >= 2
    /\ LastWriter = 2
    /\ tradeInfoList[1].status = "success"
    /\ Cell(resultsFile, 1, "status") = "success"

-----------------------------------------------------------------------------
(* C34 - Key-map construction: once createWalletKeysMap is over, the run   *)
(* goes on and the key map holds exactly the pairs of the secret entries   *)
(* whose key starts with 'WALLET_KEYS_' and whose value is a non-empty     *)
(* public part, a colon and a non-empty private part; every other entry is *)
(* skipped and the run is not aborted.                                     *)

\* position of the first colon of a text after position a, or one past the end
ColonAfter(text, a) ==
    IF \E k \in (a + 1)..Len(text) : text[k] = ":"
    THEN CHOOSE k \in (a + 1)..Len(text) :
             text[k] = ":" /\ \A m \in (a + 1)..(k - 1) : text[m] # ":"
    ELSE Len(text) + 1

\* the text before the first colon, and the text between it and the next one
PublicPart(text) == SubSeq(text, 1, ColonAfter(text, 0) - 1)
PrivatePart(text) ==
    SubSeq(text, ColonAfter(text, 0) + 1, ColonAfter(text, ColonAfter(text, 0)) - 1)

\* the entry encodes a pair
EncodesPair(entry) ==
    /\ Len(entry.key) >= 1
    /\ entry.key[1] = "WALLET_KEYS_"
    /\ entry.value.isString
    /\ PublicPart(entry.value.text) # <<>>
    /\ PrivatePart(entry.value.text) # <<>>

\* the pairs the entries of the secret encode
EncodedPairs ==
    { <<Text(PublicPart(walletKeysJson[k].value.text)),
        Text(PrivatePart(walletKeysJson[k].value.text))>> :
          k \in { m \in DOMAIN walletKeysJson : EncodesPair(walletKeysJson[m]) } }

KeyMapConstruction ==
    pc # "main" =>
        /\ pc # "exit1"
        /\ DOMAIN walletKeysMap = { pair[1] : pair \in EncodedPairs }
        /\ \A address \in DOMAIN walletKeysMap :
              <<address, walletKeysMap[address]>> \in EncodedPairs

-----------------------------------------------------------------------------
(* C35 - Termination: when every network call and every sleep answers in   *)
(* the end, the run ends: either main resolves, every record having been   *)
(* started exactly once in the order of the input with at most 3 calls of  *)
(* the waiter for each, or the process exits with status 1 at startup,     *)
(* before any record is started.                                           *)

\* main has resolved after a complete pass over the batch
Finished ==
    /\ pc = "done"
    /\ StartOrder = [k \in 1..N |-> k]
    /\ \A t \in 1..N : WaiterInvocations(t) <= MAX_RETRIES

\* the process has exited at startup
Aborted == pc = "exit1" /\ \A k \in DOMAIN trace : trace[k].trade = 0

\* every run that has loaded a batch ends with every record started: not so
\* when the secret store cannot be read, the process then exits before the loop
TerminationOfEveryRun == (pc = "main") ~> Finished

Termination == <>(Finished \/ Aborted)

\* a run of two records ended, one of them after three calls of the waiter
TerminationWitness ==
    /\ Finished
    /\ N = 2
    /\ \E t \in 1..N : WaiterInvocations(t) = MAX_RETRIES

====
